---- MODULE Spec2Model ----
(***************************************************************************)
(* Dev-Governance/tools/validate_metric.py: one validation pass over a     *)
(* schema document and a metric document.  The script is a straight line   *)
(* of sections; each section is one action below, and an uncaught Python   *)
(* exception in a section ends the run (pc = "crashed", exit status 1).    *)
(***************************************************************************)
EXTENDS Integers, Sequences, FiniteSets, TLC

VARIABLES pc, schema, metric, errors, tests, math_failures, out, exit_status

vars == <<pc, schema, metric, errors, tests, math_failures, out, exit_status>>

(***************************************************************************)
(* Python values, as the YAML loader produces them.  Every value carries   *)
(* its type in t; a mapping keeps its items in insertion order.            *)
(***************************************************************************)
PyNone == [t |-> "none"]
PyBool(b) == [t |-> "bool", b |-> b]
PyNum(n, d) == [t |-> "num", n |-> n, d |-> d]
PyInt(i) == PyNum(i, 1)
PyStr(s) == [t |-> "str", s |-> s]
PyList(l) == [t |-> "list", l |-> l]
PyDict(items) == [t |-> "dict", items |-> items]

IsDict(v) == v.t = "dict"
IsList(v) == v.t = "list"
IsStr(v) == v.t = "str"
IsNumber(v) == v.t \in {"num", "bool"}

\* A key left out of a document while it is built; never a value of one.
Absent == [t |-> "absent"]
Mapping(pairs) == PyDict(SelectSeq(pairs, LAMBDA p : p[2].t # "absent"))

(***************************************************************************)
(* dict: `k in d`, d.get(k, default), d[k] for a key that is present.      *)
(***************************************************************************)
Has(d, k) == \E i \in 1..Len(d.items) : d.items[i][1] = k

Lookup(d, k) == d.items[CHOOSE i \in 1..Len(d.items) : d.items[i][1] = k][2]

Get(d, k, default) == IF Has(d, k) THEN Lookup(d, k) ELSE default

(***************************************************************************)
(* Numbers are exact rationals n/d with d > 0; bool counts as 0 or 1.      *)
(***************************************************************************)
Abs(i) == IF i < 0 THEN -i ELSE i

NumOf(v) == IF v.t = "bool" THEN (IF v.b THEN PyInt(1) ELSE PyInt(0)) ELSE v

RECURSIVE GCD(_, _)
GCD(a, b) == IF b = 0 THEN a ELSE GCD(b, a % b)

\* n/d in lowest terms over a positive denominator, for d # 0
Rat(n, d) ==
    LET g == GCD(Abs(n), Abs(d))
    IN  IF d < 0 THEN PyNum((-n) \div g, (-d) \div g) ELSE PyNum(n \div g, d \div g)

RatAdd(a, b) == Rat(a.n * b.d + b.n * a.d, a.d * b.d)

RatSub(a, b) == Rat(a.n * b.d - b.n * a.d, a.d * b.d)

RatDiv(a, b) == Rat(a.n * b.d, a.d * b.n)

RatAbs(a) == PyNum(Abs(a.n), a.d)

RatEq(a, b) == a.n * b.d = b.n * a.d

RatGT(a, b) == a.n * b.d > b.n * a.d

IsZero(v) == IsNumber(v) /\ NumOf(v).n = 0

(***************************************************************************)
(* ==, truthiness, hashability and len() of Python values.                 *)
(***************************************************************************)
PyEq(a, b) ==
    IF IsNumber(a) /\ IsNumber(b) THEN RatEq(NumOf(a), NumOf(b))
    ELSE a.t = b.t /\ a = b

PyTruthy(v) ==
    CASE v.t = "none" -> FALSE
      [] v.t = "bool" -> v.b
      [] v.t = "num" -> v.n # 0
      [] v.t = "str" -> v.s # ""
      [] v.t = "list" -> v.l # <<>>
      [] v.t = "dict" -> v.items # <<>>

Hashable(v) == v.t \notin {"list", "dict"}

HasLen(v) == v.t \in {"str", "list", "dict"}

PyIn(v, candidates) == \E i \in 1..Len(candidates) : PyEq(v, candidates[i])

\* set(list): the values of a list, compared with ==.
PySet(v) == {v.l[i] : i \in 1..Len(v.l)}

InPySet(v, S) == \E x \in S : PyEq(v, x)

(***************************************************************************)
(* Text.  A string value holds a literal; its characters are looked up in  *)
(* Spelling, and a literal outside the table is a single character.        *)
(***************************************************************************)
Spelling ==
    "" :> <<>> @@
    "division" :> <<"d", "i", "v", "i", "s", "i", "o", "n">> @@
    "Division" :> <<"D", "i", "v", "i", "s", "i", "o", "n">> @@
    " DIVISION " :> <<" ", "D", "I", "V", "I", "S", "I", "O", "N", " ">> @@
    "sum" :> <<"s", "u", "m">> @@
    "subdivision" :> <<"s", "u", "b", "d", "i", "v", "i", "s", "i", "o", "n">> @@
    "Zero stock" :> <<"Z", "e", "r", "o", " ", "s", "t", "o", "c", "k">> @@
    "no sales" :> <<"n", "o", " ", "s", "a", "l", "e", "s">> @@
    "DIVISION guard" :> <<"D", "I", "V", "I", "S", "I", "O", "N", " ", "g", "u", "a", "r", "d">> @@
    "ze" :> <<"z", "e">> @@
    "ro" :> <<"r", "o">> @@
    "case" :> <<"c", "a", "s", "e">> @@
    "ab" :> <<"a", "b">> @@
    "expected_output" :> <<"e", "x", "p", "e", "c", "t", "e", "d", "_", "o", "u", "t", "p", "u", "t">> @@
    "created_by" :> <<"c", "r", "e", "a", "t", "e", "d", "_", "b", "y">> @@
    "approved_by" :> <<"a", "p", "p", "r", "o", "v", "e", "d", "_", "b", "y">> @@
    "approval_date" :> <<"a", "p", "p", "r", "o", "v", "a", "l", "_", "d", "a", "t", "e">> @@
    "zero" :> <<"z", "e", "r", "o">>

Chars(s) == IF s \in DOMAIN Spelling THEN Spelling[s] ELSE <<s>>

UpperCase == <<"A", "B", "C", "D", "E", "F", "G", "H", "I", "J", "K", "L", "M",
               "N", "O", "P", "Q", "R", "S", "T", "U", "V", "W", "X", "Y", "Z">>

LowerCase == <<"a", "b", "c", "d", "e", "f", "g", "h", "i", "j", "k", "l", "m",
               "n", "o", "p", "q", "r", "s", "t", "u", "v", "w", "x", "y", "z">>

Whitespace == {" ", "\t", "\n"}

LowerChar(c) ==
    IF \E i \in 1..Len(UpperCase) : UpperCase[i] = c
    THEN LowerCase[CHOOSE i \in 1..Len(UpperCase) : UpperCase[i] = c]
    ELSE c

LowerKeepCase(cs) == cs

\* str.lower()
Lower(cs) == [i \in 1..Len(cs) |-> LowerChar(cs[i])]

\* str.strip()
RECURSIVE LStrip(_)
LStrip(cs) ==
    IF cs # <<>> /\ Head(cs) \in Whitespace THEN LStrip(Tail(cs)) ELSE cs

RECURSIVE RStrip(_)
RStrip(cs) ==
    IF cs # <<>> /\ cs[Len(cs)] \in Whitespace
    THEN RStrip(SubSeq(cs, 1, Len(cs) - 1))
    ELSE cs

Strip(cs) == RStrip(LStrip(cs))

\* sep.join(parts)
RECURSIVE Join(_, _)
Join(parts, sep) ==
    IF parts = <<>> THEN <<>>
    ELSE IF Len(parts) = 1 THEN parts[1]
    ELSE parts[1] \o sep \o Join(Tail(parts), sep)

\* needle in hay, for two strings
Substring(needle, hay) ==
    \E i \in 0..(Len(hay) - Len(needle)) :
        SubSeq(hay, i + 1, i + Len(needle)) = needle

Digit == <<"0", "1", "2", "3", "4", "5", "6", "7", "8", "9">>

RECURSIVE Digits(_)
Digits(i) ==
    IF i < 10 THEN <<Digit[i + 1]>> ELSE Digits(i \div 10) \o <<Digit[(i % 10) + 1]>>

\* str(v), for the scalars a document holds
StrOf(v) ==
    CASE v.t = "str" -> Chars(v.s)
      [] v.t = "none" -> <<"N", "o", "n", "e">>
      [] v.t = "bool" -> IF v.b THEN <<"T", "r", "u", "e">> ELSE <<"F", "a", "l", "s", "e">>
      [] v.t = "num" /\ v.d = 1 ->
            IF v.n < 0 THEN <<"-">> \o Digits(-v.n) ELSE Digits(v.n)

\* len(v), for a value that has one
PyLen(v) ==
    CASE v.t = "str" -> Len(Chars(v.s))
      [] v.t = "list" -> Len(v.l)
      [] v.t = "dict" -> Len(v.items)

\* iter(v), for a value that can be iterated
Iter(v) ==
    CASE v.t = "str" -> [i \in 1..Len(Chars(v.s)) |-> PyStr(Chars(v.s)[i])]
      [] v.t = "list" -> v.l
      [] v.t = "dict" -> [i \in 1..Len(v.items) |-> PyStr(v.items[i][1])]

\* item in container: "yes", "no", or "raise" for a TypeError
Contains(container, item) ==
    CASE container.t = "dict" ->
            IF IsStr(item) /\ Has(container, item.s) THEN "yes" ELSE "no"
      [] container.t = "list" ->
            IF PyIn(item, container.l) THEN "yes" ELSE "no"
      [] container.t = "str" ->
            IF ~IsStr(item) THEN "raise"
            ELSE IF Substring(Chars(item.s), Chars(container.s)) THEN "yes" ELSE "no"
      [] OTHER -> "raise"

\* sorted(S) for a set of strings: Python orders them by code point.
Lexicographic == <<"as_of", "core", "end", "standard", "start">>

Sorted(S) ==
    LET keep == SelectSeq(Lexicographic, LAMBDA a : PyStr(a) \in S)
    IN  [i \in 1..Len(keep) |-> PyStr(keep[i])]

(***************************************************************************)
(* Lines 42-47.                                                            *)
(***************************************************************************)
edge_case_to_text(ec) ==
    IF IsStr(ec) THEN Chars(ec.s)
    ELSE IF IsDict(ec)
    THEN Join([i \in 1..Len(ec.items) |->
                 Chars(ec.items[i][1]) \o <<" ">> \o StrOf(ec.items[i][2])], <<" ">>)
    ELSE StrOf(ec)

(***************************************************************************)
(* A section's outcome: the error list as it leaves it, and whether an     *)
(* exception was raised in it.                                             *)
(***************************************************************************)
Msg(rule, text, args) == [rule |-> rule, text |-> text, args |-> args]

Ok(errs) == [errors |-> errs, raised |-> FALSE]

Raise(errs) == [errors |-> errs, raised |-> TRUE]

EmptyList == PyList(<<>>)

EmptyDict == PyDict(<<>>)

(***************************************************************************)
(* 1) Required fields, lines 60-62.                                        *)
(***************************************************************************)
MissingOrEmptyNullOnly(m, field) ==
    ~Has(m, field) \/ PyEq(Get(m, field, PyNone), PyNone)

MissingOrEmpty(m, field) ==
    ~Has(m, field)
    \/ PyIn(Get(m, field, PyNone), <<PyNone, PyStr(""), EmptyList, EmptyDict>>)

RECURSIVE RequiredLoop(_, _, _)
RequiredLoop(fields, m, errs) ==
    IF fields = <<>> THEN errs
    ELSE RequiredLoop(Tail(fields), m,
            IF MissingOrEmpty(m, Head(fields).s)
            THEN Append(errs, Msg("required", "Missing or empty required field",
                                  <<Head(fields)>>))
            ELSE errs)

RequiredFieldsRule(s, m, errs) ==
    Ok(RequiredLoop(Get(s, "required_fields", EmptyList).l, m, errs))

(***************************************************************************)
(* 2) Tier validation, lines 67-70.                                        *)
(***************************************************************************)
TierRule(s, m, errs) ==
    LET allowed_tiers == PySet(Get(s, "allowed_tiers", EmptyList))
        tier == Get(m, "tier", PyNone)
    IN  IF ~Hashable(tier) THEN Raise(errs)
        ELSE IF ~InPySet(tier, allowed_tiers)
        THEN Ok(Append(errs, Msg("tier", "Invalid tier",
                                 <<tier, PyList(Sorted(allowed_tiers))>>)))
        ELSE Ok(errs)

(***************************************************************************)
(* 3) Time semantics, lines 75-97.                                         *)
(***************************************************************************)
DatesMismatchSetOnly(dates, expected_dates) ==
    PySet(dates) # PySet(expected_dates)

DatesMismatch(dates, expected_dates) ==
    PySet(dates) # PySet(expected_dates) \/ Len(dates.l) # Len(expected_dates.l)

RequiredDatesRule(dates, expected_dates, errs) ==
    IF PyTruthy(expected_dates)
    THEN IF ~IsList(dates)
         THEN Ok(Append(errs, Msg("time", "required_dates must be a list", <<>>)))
         ELSE IF \E i \in 1..Len(dates.l) : ~Hashable(dates.l[i]) THEN Raise(errs)
         ELSE IF DatesMismatch(dates, expected_dates)
         THEN Ok(Append(errs, Msg("time", "required_dates must match",
                                  <<PyList(Sorted(PySet(expected_dates)))>>)))
         ELSE Ok(errs)
    ELSE IF ~IsList(dates) \/ Len(dates.l) < 2
         THEN Ok(Append(errs, Msg("time", "required_dates must include start and end",
                                  <<>>)))
         ELSE Ok(errs)

TimeSemanticsRule(s, m, errs) ==
    LET ts == Get(m, "time_semantics", EmptyDict)
        rules == Get(s, "time_semantics_rules", EmptyDict)
        allowed_ts == PySet(Get(rules, "allowed_types", EmptyList))
    IN  IF ~IsDict(ts) THEN Raise(errs)
        ELSE
        LET ts_type == Get(ts, "type", PyNone)
            dates == Get(ts, "required_dates", EmptyList)
            required_by_type == Get(rules, "required_dates_by_type", EmptyDict)
        IN  IF ~Hashable(ts_type) THEN Raise(errs)
            ELSE
            LET errs1 == IF ~InPySet(ts_type, allowed_ts)
                         THEN Append(errs, Msg("time", "Invalid time_semantics.type",
                                               <<ts_type>>))
                         ELSE errs
                expected_dates ==
                    IF IsDict(required_by_type)
                    THEN (IF IsStr(ts_type)
                          THEN Get(required_by_type, ts_type.s, PyNone)
                          ELSE PyNone)
                    ELSE PyNone
            IN  RequiredDatesRule(dates, expected_dates, errs1)

(***************************************************************************)
(* 4) Test rules, lines 102-110.                                           *)
(***************************************************************************)
Unnamed == PyStr("<unnamed>")

RECURSIVE PerTestLoop(_, _)
PerTestLoop(ts, errs) ==
    IF ts = <<>> THEN Ok(errs)
    ELSE LET t == Head(ts)
             found == Contains(t, PyStr("expected_output"))
         IN  IF found = "raise" THEN Raise(errs)
             ELSE IF found = "yes" THEN PerTestLoop(Tail(ts), errs)
             ELSE IF ~IsDict(t) THEN Raise(errs)
             ELSE PerTestLoop(Tail(ts),
                     Append(errs, Msg("tests", "Test missing expected_output",
                                      <<Get(t, "name", Unnamed)>>)))

MinTestsDefaultOne(s) ==
    Get(Get(s, "test_rules", EmptyDict), "minimum_test_cases", PyInt(1))

MinTests(s) == Get(Get(s, "test_rules", EmptyDict), "minimum_test_cases", PyInt(2))

TestRule(s, m, errs) ==
    LET tests_ == Get(m, "tests", EmptyList)
        min_tests == MinTests(s)
    IN  IF ~IsList(tests_) \/ Len(tests_.l) < min_tests.n
        THEN IF ~HasLen(tests_) THEN Raise(errs)
             ELSE Ok(Append(errs, Msg("tests", "Insufficient tests",
                                      <<PyInt(PyLen(tests_)), min_tests>>)))
        ELSE PerTestLoop(tests_.l, errs)

(***************************************************************************)
(* 5) Edge cases, lines 115-135.                                           *)
(***************************************************************************)
ConditionalMarker == PyStr("when_math_operations_includes_division")

MinEdges(s) == Get(Get(s, "edge_case_rules", EmptyDict), "minimum_count", PyInt(1))

Normalized(operations) ==
    {Lower(Strip(StrOf(operations.l[i]))) : i \in 1..Len(operations.l)}

RequireDivisionHandling(s, m) ==
    LET division_rule == Get(Get(s, "edge_case_rules", EmptyDict),
                             "require_division_by_zero_handling", PyBool(FALSE))
        operations == Get(m, "math_operations", EmptyList)
    IN  IF division_rule = PyBool(TRUE) THEN TRUE
        ELSE IF PyEq(division_rule, ConditionalMarker)
        THEN IsList(operations) /\ Chars("division") \in Normalized(operations)
        ELSE FALSE

EdgeText(edge_cases) ==
    LET entries == Iter(edge_cases)
    IN  Lower(Join([i \in 1..Len(entries) |-> edge_case_to_text(entries[i])], <<" ">>))

MentionsDivisionByZero(edge_text) ==
    Substring(Chars("zero"), edge_text) \/ Substring(Chars("division"), edge_text)

EdgeCaseRule(s, m, errs) ==
    LET edge_cases == Get(m, "edge_cases", EmptyList)
        min_edges == MinEdges(s)
        errs1 == IF ~IsList(edge_cases) \/ Len(edge_cases.l) < min_edges.n
                 THEN Append(errs, Msg("edge", "Insufficient edge_cases", <<>>))
                 ELSE errs
    IN  IF RequireDivisionHandling(s, m)
        THEN IF ~HasLen(edge_cases) THEN Raise(errs1)
             ELSE IF ~MentionsDivisionByZero(EdgeText(edge_cases))
             THEN Ok(Append(errs1,
                     Msg("edge", "edge_cases must explicitly mention division-by-zero handling",
                         <<>>)))
             ELSE Ok(errs1)
        ELSE Ok(errs1)

(***************************************************************************)
(* 6) Audit fields, lines 140-143.                                         *)
(***************************************************************************)
AuditFields == <<"created_by", "approved_by", "approval_date">>

RECURSIVE AuditLoop(_, _, _)
AuditLoop(fields, audit, errs) ==
    IF fields = <<>> THEN Ok(errs)
    ELSE LET field == Head(fields)
             found == Contains(audit, PyStr(field))
         IN  IF found = "raise" THEN Raise(errs)
             ELSE IF found = "no"
             THEN AuditLoop(Tail(fields), audit,
                            Append(errs, Msg("audit", "Missing or empty audit", <<PyStr(field)>>)))
             ELSE IF ~IsDict(audit) THEN Raise(errs)
             ELSE IF PyIn(Get(audit, field, PyNone), <<PyNone, PyStr("")>>)
             THEN AuditLoop(Tail(fields), audit,
                            Append(errs, Msg("audit", "Missing or empty audit", <<PyStr(field)>>)))
             ELSE AuditLoop(Tail(fields), audit, errs)

AuditRule(s, m, errs) == AuditLoop(AuditFields, Get(m, "audit", EmptyDict), errs)

(***************************************************************************)
(* 7) Metric-specific math validation, lines 148-181.  Arithmetic is exact *)
(* rational arithmetic; the documents below hold no expected_output at a   *)
(* distance of exactly 0.01 from the computed value, where the binary      *)
(* rounding of the operands would decide the comparison.                   *)
(***************************************************************************)
Value(v) == [value |-> v, raised |-> FALSE]

Raised == [value |-> PyNone, raised |-> TRUE]

compute_inventory_turnover_NoZeroGuard(inputs) ==
    IF ~IsDict(inputs) THEN Raised
    ELSE
    LET cogs == Get(inputs, "COGS", PyNone)
        inv_begin == Get(inputs, "InventoryBegin", PyNone)
        inv_end == Get(inputs, "InventoryEnd", PyNone)
    IN  IF PyIn(PyNone, <<cogs, inv_begin, inv_end>>) THEN Value(PyNone)
        ELSE IF ~IsNumber(inv_begin) \/ ~IsNumber(inv_end) THEN Raised
        ELSE
        LET avg_inventory == RatDiv(RatAdd(NumOf(inv_begin), NumOf(inv_end)), PyInt(2))
        IN  IF IsZero(cogs) THEN Value(PyInt(0))
            ELSE IF ~IsNumber(cogs) \/ avg_inventory.n = 0 THEN Raised
            ELSE Value(RatDiv(NumOf(cogs), avg_inventory))

compute_inventory_turnover(inputs) ==
    IF ~IsDict(inputs) THEN Raised
    ELSE
    LET cogs == Get(inputs, "COGS", PyNone)
        inv_begin == Get(inputs, "InventoryBegin", PyNone)
        inv_end == Get(inputs, "InventoryEnd", PyNone)
    IN  IF PyIn(PyNone, <<cogs, inv_begin, inv_end>>) THEN Value(PyNone)
        ELSE IF ~IsNumber(inv_begin) \/ ~IsNumber(inv_end) THEN Raised
        ELSE
        LET avg_inventory == RatDiv(RatAdd(NumOf(inv_begin), NumOf(inv_end)), PyInt(2))
        IN  IF avg_inventory.n = 0 THEN Value(PyNone)
            ELSE IF IsZero(cogs) THEN Value(PyInt(0))
            ELSE IF ~IsNumber(cogs) THEN Raised
            ELSE Value(RatDiv(NumOf(cogs), avg_inventory))

Tolerance == PyNum(1, 100)

OutOfToleranceLoose(actual, expected) ==
    RatGT(RatAbs(RatSub(actual, NumOf(expected))), PyNum(5, 100))

\* abs(actual - float(expected)) > 0.01
OutOfTolerance(actual, expected) ==
    RatGT(RatAbs(RatSub(actual, NumOf(expected))), Tolerance)

RECURSIVE MathLoop(_, _)
MathLoop(ts, failures) ==
    IF ts = <<>> THEN Ok(failures)
    ELSE LET t == Head(ts)
         IN  IF ~IsDict(t) THEN Raise(failures)
             ELSE
             LET name == Get(t, "name", Unnamed)
                 inputs == Get(t, "inputs", EmptyDict)
                 expected == Get(t, "expected_output", PyNone)
                 actual == compute_inventory_turnover(inputs)
             IN  IF actual.raised THEN Raise(failures)
                 ELSE IF PyEq(expected, PyNone)
                 THEN MathLoop(Tail(ts),
                        IF ~PyEq(actual.value, PyNone)
                        THEN Append(failures, Msg("math", "expected NULL, got",
                                                  <<name, expected, actual.value>>))
                        ELSE failures)
                 ELSE IF PyEq(actual.value, PyNone)
                 THEN MathLoop(Tail(ts), Append(failures, Msg("math", "expected, got",
                                                <<name, expected, actual.value>>)))
                 ELSE IF ~IsNumber(expected) THEN Raise(failures)
                 ELSE MathLoop(Tail(ts),
                        IF OutOfTolerance(actual.value, expected)
                        THEN Append(failures, Msg("math", "expected, got",
                                                  <<name, expected, actual.value>>))
                        ELSE failures)

MathRule(m, tests_, failures) ==
    IF PyEq(Get(m, "metric_id", PyNone), PyStr("INVENTORY_TURNOVER"))
    THEN IF ~HasLen(tests_) THEN Raise(failures) ELSE MathLoop(Iter(tests_), failures)
    ELSE Ok(failures)

(***************************************************************************)
(* Output, lines 186-215.                                                  *)
(***************************************************************************)
Line(text, args) == [text |-> text, args |-> args]

Bullets(msgs) == [i \in 1..Len(msgs) |-> Line(" -", <<msgs[i]>>)]

ReportLines(errs, failures) ==
    <<Line("=== Metric Governance Validation ===", <<>>),
      Line("Schema:", <<>>),
      Line("Metric:", <<>>)>>
    \o (IF errs # <<>>
        THEN <<Line("VALIDATION: FAIL", <<>>)>> \o Bullets(errs)
        ELSE <<Line("VALIDATION: PASS", <<>>)>>)
    \o (IF failures # <<>>
        THEN <<Line("MATH TESTS: FAIL", <<>>)>> \o Bullets(failures)
        ELSE <<Line("MATH TESTS: PASS", <<>>)>>)

RECURSIVE ListingLoop(_, _)
ListingLoop(items, lines) ==
    IF items = <<>> THEN Ok(lines)
    ELSE LET name == Head(items)[1]
             var == Head(items)[2]
         IN  IF ~IsDict(var) THEN Raise(lines)
             ELSE ListingLoop(Tail(items),
                     Append(lines, Line("variable",
                            <<PyStr(name),
                              Get(var, "source_tables", PyNone),
                              Get(var, "source_fields", PyNone),
                              Get(var, "aggregation", PyNone)>>)))

\* The result's errors field holds the printed lines.
Listing(m, lines) ==
    LET variables == Get(m, "variables", EmptyDict)
        lines1 == Append(lines, Line("IMPLEMENTATION ASSUMPTIONS TO CONFIRM (Phase 2):", <<>>))
    IN  IF ~IsDict(variables) THEN Raise(lines1)
        ELSE ListingLoop(variables.items, lines1)

\* lines 212-215
ExitStatus(errs, failures) == IF errs # <<>> \/ failures # <<>> THEN 1 ELSE 0

(***************************************************************************)
(* The documents the loader may return.  Each family below varies the     *)
(* keys one section reads and keeps the rest of a conformant document.     *)
(***************************************************************************)
MaxRequired == 2
MaxDates == 3
MaxTests == 2
MaxEdges == 2

SeqsUpTo(S, n) == UNION {[1..k -> S] : k \in 0..n}

Strs(names) == PyList([i \in 1..Len(names) |-> PyStr(names[i])])

SchemaWith(required, tiers, time_rules, test_rules, edge_rules) ==
    Mapping(<< <<"required_fields", required>>,
               <<"allowed_tiers", tiers>>,
               <<"time_semantics_rules", time_rules>>,
               <<"test_rules", test_rules>>,
               <<"edge_case_rules", edge_rules>> >>)

MetricWith(name, owner, tier, ts, tests_, edge_cases, audit, operations, id, variables) ==
    Mapping(<< <<"name", name>>,
               <<"owner", owner>>,
               <<"tier", tier>>,
               <<"time_semantics", ts>>,
               <<"tests", tests_>>,
               <<"edge_cases", edge_cases>>,
               <<"audit", audit>>,
               <<"math_operations", operations>>,
               <<"metric_id", id>>,
               <<"variables", variables>> >>)

TimeRules(allowed, by_type) ==
    Mapping(<< <<"allowed_types", allowed>>, <<"required_dates_by_type", by_type>> >>)

TestRules(min) == Mapping(<< <<"minimum_test_cases", min>> >>)

EdgeRules(min, division) ==
    Mapping(<< <<"minimum_count", min>>,
               <<"require_division_by_zero_handling", division>> >>)

TimeSem(type, dates) ==
    Mapping(<< <<"type", type>>, <<"required_dates", dates>> >>)

Inputs(cogs, inv_begin, inv_end) ==
    Mapping(<< <<"COGS", cogs>>, <<"InventoryBegin", inv_begin>>,
               <<"InventoryEnd", inv_end>> >>)

TestCase(name, inputs, expected) ==
    Mapping(<< <<"name", name>>, <<"inputs", inputs>>, <<"expected_output", expected>> >>)

Audit(created_by, approved_by, approval_date) ==
    Mapping(<< <<"created_by", created_by>>, <<"approved_by", approved_by>>,
               <<"approval_date", approval_date>> >>)

Variable(tables, fields, aggregation) ==
    Mapping(<< <<"source_tables", tables>>, <<"source_fields", fields>>,
               <<"aggregation", aggregation>> >>)

\* lines 52-53: the two documents as loaded
Load(sc, m) ==
    /\ schema' = sc
    /\ metric' = m
    /\ pc' = "required"
    /\ UNCHANGED exit_status

\* A conformant pair.
BaseRequired == Strs(<<"name">>)
BaseTiers == Strs(<<"standard", "core">>)
BaseTimeRules ==
    TimeRules(Strs(<<"range", "point">>),
              PyDict(<< <<"range", Strs(<<"start", "end">>)>> >>))
BaseTestRules == TestRules(PyInt(2))
BaseEdgeRules == EdgeRules(PyInt(1), ConditionalMarker)
BaseSchema ==
    SchemaWith(BaseRequired, BaseTiers, BaseTimeRules, BaseTestRules, BaseEdgeRules)

TurnoverInputs == Inputs(PyInt(100), PyInt(40), PyInt(60))
TestExact == TestCase(PyStr("exact"), TurnoverInputs, PyInt(2))
TestNear == TestCase(PyStr("near"), TurnoverInputs, PyNum(202, 100))
TestFar == TestCase(PyStr("far"), TurnoverInputs, PyNum(250, 100))
TestZeroCogs == TestCase(PyStr("zero_cogs"), Inputs(PyInt(0), PyInt(10), PyInt(10)), PyInt(0))
TestNoInventory == TestCase(PyStr("no_inventory"), Inputs(PyInt(50), PyInt(0), PyInt(0)), PyNone)
TestCancelled == TestCase(PyStr("cancelled"), Inputs(PyInt(50), PyInt(-10), PyInt(10)), PyInt(5))
TestNullExpected == TestCase(PyStr("null_expected"), TurnoverInputs, PyNone)
TestBare == TestCase(Absent, TurnoverInputs, Absent)
TestMissingInput ==
    TestCase(PyStr("missing_input"), Inputs(PyInt(100), PyInt(40), Absent), PyInt(2))
TestNullInput ==
    TestCase(PyStr("null_input"), Inputs(PyNone, PyInt(40), PyInt(60)), PyNone)
TestNoInputs == TestCase(PyStr("no_inputs"), Absent, PyNone)
TestAllZero == TestCase(PyStr("all_zero"), Inputs(PyInt(0), PyInt(0), PyInt(0)), PyInt(0))
TestThirds == TestCase(PyStr("thirds"), Inputs(PyInt(1), PyInt(1), PyInt(2)), PyNum(67, 100))

BaseTimeSem == TimeSem(PyStr("range"), Strs(<<"end", "start">>))
BaseTests == PyList(<<TestExact, TestZeroCogs>>)
BaseEdgeCases == Strs(<<"Zero stock">>)
BaseAudit == Audit(PyStr("ann"), PyStr("bob"), PyStr("2024-01-01"))
BaseOperations == Strs(<<"division">>)
BaseVariables ==
    PyDict(<< <<"COGS", Variable(Strs(<<"ledger">>), Strs(<<"cost">>), PyStr("sum"))>> >>)
TurnoverId == PyStr("INVENTORY_TURNOVER")

\* Every section at once: a conforming and a failing value for each.
LoadRuleDoc ==
    \E
        required \in {BaseRequired, Strs(<<"owner", "name">>)},
        name \in {Absent, PyStr("turnover")},
        tier \in {PyStr("gold"), PyStr("core")},
        ts \in {PyNone, BaseTimeSem},
        tests_ \in {PyNone, BaseTests, PyList(<<TestBare, TestFar>>)},
        edge_cases \in {Strs(<<"no sales">>), BaseEdgeCases},
        audit \in {BaseAudit, Audit(PyStr("ann"), PyStr(""), Absent)},
        variables \in {Absent, BaseVariables, PyDict(<< <<"COGS", PyNone>> >>)} :
        Load(SchemaWith(required, BaseTiers, BaseTimeRules, BaseTestRules, BaseEdgeRules),
             MetricWith(name, Absent, tier, ts, tests_, edge_cases, audit,
                        BaseOperations, TurnoverId, variables))

\* Any subset of the structures left out, of the metric and of the schema.
MetricStructures ==
    {"tier", "time_semantics", "tests", "edge_cases", "audit", "math_operations",
     "metric_id", "variables"}

SchemaKeys ==
    {"required_fields", "allowed_tiers", "time_semantics_rules", "test_rules",
     "edge_case_rules"}

Unless(key, absent, v) == IF key \in absent THEN Absent ELSE v

LoadSparseDoc ==
    \E absent_m \in SUBSET MetricStructures, absent_s \in SUBSET SchemaKeys :
        Load(SchemaWith(Unless("required_fields", absent_s, BaseRequired),
                        Unless("allowed_tiers", absent_s, BaseTiers),
                        Unless("time_semantics_rules", absent_s, BaseTimeRules),
                        Unless("test_rules", absent_s, TestRules(PyInt(1))),
                        Unless("edge_case_rules", absent_s, EdgeRules(PyInt(0), PyBool(TRUE)))),
             MetricWith(PyStr("turnover"), Absent,
                        Unless("tier", absent_m, PyStr("core")),
                        Unless("time_semantics", absent_m, BaseTimeSem),
                        Unless("tests", absent_m, PyList(<<TestExact>>)),
                        Unless("edge_cases", absent_m, EmptyList),
                        Unless("audit", absent_m, BaseAudit),
                        Unless("math_operations", absent_m, BaseOperations),
                        Unless("metric_id", absent_m, TurnoverId),
                        Unless("variables", absent_m, BaseVariables)))

\* Section 1.
RequiredNames == {"name", "owner"}

LoadRequiredDoc ==
    \E
        required \in {Absent} \cup {Strs(f) : f \in SeqsUpTo(RequiredNames, MaxRequired)},
        name \in {Absent, PyNone, PyStr(""), EmptyList, EmptyDict, PyInt(0),
                  PyBool(FALSE), PyStr("turnover")},
        owner \in {Absent, PyStr(""), PyStr("ops")},
        tier \in {PyStr("core"), PyStr("gold")} :
        Load(SchemaWith(required, BaseTiers, BaseTimeRules, BaseTestRules,
                            BaseEdgeRules),
             MetricWith(name, owner, tier, BaseTimeSem, BaseTests, BaseEdgeCases,
                            BaseAudit, BaseOperations, TurnoverId, BaseVariables))

\* Section 3.
DateNames == {"start", "end", "as_of"}

LoadTimeDoc ==
    \E
        allowed \in {Absent, Strs(<<"range">>), Strs(<<"range", "point">>)},
        by_type \in {Absent,
                     PyDict(<< <<"range", Strs(<<"start", "end">>)>> >>),
                     PyDict(<< <<"range", Strs(<<"start", "end">>)>>,
                               <<"point", Strs(<<"as_of">>)>> >>),
                     PyDict(<< <<"range", Strs(<<"end", "as_of", "start">>)>>,
                               <<"point", EmptyList>> >>)},
        type \in {Absent, PyNone, PyStr("range"), PyStr("point"), PyStr("rolling")},
        dates \in {Absent, PyStr("ab")} \cup {Strs(d) : d \in SeqsUpTo(DateNames, MaxDates)} :
        Load(SchemaWith(BaseRequired, BaseTiers, TimeRules(allowed, by_type),
                            BaseTestRules, BaseEdgeRules),
             MetricWith(PyStr("turnover"), Absent, PyStr("core"), TimeSem(type, dates),
                            BaseTests, BaseEdgeCases, BaseAudit, BaseOperations,
                            TurnoverId, BaseVariables))

\* Sections 4 and 7.
TestCases ==
    {TestExact, TestNear, TestFar, TestZeroCogs, TestNoInventory, TestCancelled,
     TestNullExpected, TestBare, TestMissingInput, TestNullInput, TestNoInputs,
     TestAllZero, TestThirds}

LoadTestDoc ==
    \E
        test_rules \in {Absent, TestRules(PyInt(1)), TestRules(PyInt(3))},
        tests_ \in SeqsUpTo(TestCases, MaxTests),
        id \in {TurnoverId, PyStr("GROSS_MARGIN")} :
        Load(SchemaWith(BaseRequired, BaseTiers, BaseTimeRules, test_rules,
                            BaseEdgeRules),
             MetricWith(PyStr("turnover"), Absent, PyStr("core"), BaseTimeSem,
                            PyList(tests_), BaseEdgeCases, BaseAudit, BaseOperations,
                            id, BaseVariables))

\* Section 5.
EdgeEntries ==
    {PyStr("Zero stock"), PyStr("no sales"), PyStr("DIVISION guard"), PyStr("ze"),
     PyStr("ro"), PyDict(<< <<"case", PyStr("zero")>> >>)}

LoadEdgeDoc ==
    \E
        min \in {Absent, PyInt(2)},
        division \in {Absent, PyBool(TRUE), PyBool(FALSE), ConditionalMarker},
        operations \in {Absent, EmptyList, Strs(<<"division">>), Strs(<<"Division">>),
                        Strs(<<"sum", " DIVISION ">>), Strs(<<"sum">>),
                        Strs(<<"subdivision">>), PyStr("division")},
        edge_cases \in {Absent} \cup {PyList(e) : e \in SeqsUpTo(EdgeEntries, MaxEdges)} :
        Load(SchemaWith(BaseRequired, BaseTiers, BaseTimeRules, BaseTestRules,
                            EdgeRules(min, division)),
             MetricWith(PyStr("turnover"), Absent, PyStr("core"), BaseTimeSem,
                            BaseTests, edge_cases, BaseAudit, operations,
                            TurnoverId, BaseVariables))

\* Values of an unexpected shape, one structure at a time.
Reshaped(key, v) ==
    MetricWith(PyStr("turnover"), Absent,
               IF key = "tier" THEN v ELSE PyStr("core"),
               IF key = "time_semantics" THEN v ELSE BaseTimeSem,
               IF key = "tests" THEN v ELSE BaseTests,
               IF key = "edge_cases" THEN v ELSE BaseEdgeCases,
               IF key = "audit" THEN v ELSE BaseAudit,
               IF key = "math_operations" THEN v ELSE BaseOperations,
               IF key = "metric_id" THEN v ELSE TurnoverId,
               IF key = "variables" THEN v ELSE BaseVariables)

Shapes ==
    {<<"tier", PyNone>>, <<"tier", EmptyList>>,
     <<"time_semantics", PyNone>>, <<"time_semantics", EmptyList>>,
     <<"time_semantics", TimeSem(EmptyList, Strs(<<"start", "end">>))>>,
     <<"time_semantics", TimeSem(PyStr("range"), PyList(<<EmptyList, PyStr("end")>>))>>,
     <<"time_semantics", TimeSem(PyStr("range"), PyNone)>>,
     <<"tests", PyNone>>, <<"tests", PyInt(3)>>, <<"tests", PyStr("ab")>>,
     <<"tests", PyDict(<< <<"ab", TestExact>>, <<"case", TestFar>> >>)>>,
     <<"tests", PyList(<<TestExact, PyNone>>)>>,
     <<"tests", PyList(<<PyStr("expected_output"), TestExact>>)>>,
     <<"tests", PyList(<<TestExact, TestCase(PyStr("null_inputs"), PyNone, PyInt(2))>>)>>,
     <<"tests", PyList(<<TestExact, TestCase(PyStr("text"), TurnoverInputs, PyStr("ab"))>>)>>,
     <<"tests", PyList(<<TestExact,
                         TestCase(PyStr("text_input"),
                                  Inputs(PyInt(1), PyStr("ab"), PyInt(2)), PyInt(2))>>)>>,
     <<"edge_cases", PyNone>>, <<"edge_cases", PyInt(3)>>, <<"edge_cases", PyStr("zero")>>,
     <<"edge_cases", PyList(<<PyNone, PyInt(0)>>)>>,
     <<"audit", PyNone>>, <<"audit", EmptyList>>, <<"audit", PyStr("created_by")>>,
     <<"audit", Strs(<<"created_by">>)>>,
     <<"math_operations", PyNone>>, <<"math_operations", PyList(<<PyNone, PyInt(0)>>)>>,
     <<"metric_id", PyNone>>, <<"metric_id", EmptyList>>,
     <<"variables", PyNone>>, <<"variables", EmptyList>>,
     <<"variables", PyDict(<< <<"COGS", PyNone>> >>)>>,
     <<"variables", PyDict(<< <<"COGS", PyStr("ab")>> >>)>>}

LoadShapeDoc ==
    \E
        sc \in {BaseSchema,
                SchemaWith(BaseRequired, BaseTiers, BaseTimeRules, BaseTestRules,
                           EdgeRules(PyInt(1), PyBool(FALSE)))},
        sh \in Shapes :
        Load(sc,
             Reshaped(sh[1], sh[2]))

(***************************************************************************)
(* The run.                                                                *)
(***************************************************************************)
ArgCounts == {1, 2, 3}

Init ==
    /\ pc = "args"
    /\ schema = PyNone
    /\ metric = PyNone
    /\ errors = <<>>
    /\ tests = PyNone
    /\ math_failures = <<>>
    /\ out = <<>>
    /\ exit_status = -1

\* lines 20-33
CheckArgs ==
    /\ pc = "args"
    /\ \E argc \in ArgCounts, schema_exists \in BOOLEAN, metric_exists \in BOOLEAN :
         IF argc # 2
         THEN /\ out' = <<Line("Usage:", <<>>)>>
              /\ exit_status' = 1
              /\ pc' = "rejected"
         ELSE IF ~schema_exists
         THEN /\ out' = <<Line("ERROR: Schema not found", <<>>)>>
              /\ exit_status' = 1
              /\ pc' = "rejected"
         ELSE IF ~metric_exists
         THEN /\ out' = <<Line("ERROR: Metric file not found", <<>>)>>
              /\ exit_status' = 1
              /\ pc' = "rejected"
         ELSE /\ pc' = "load"
              /\ UNCHANGED <<out, exit_status>>
    /\ UNCHANGED <<schema, metric, errors, tests, math_failures>>

\* lines 52-55; a document that does not parse raises in load_yaml
LoadFiles ==
    /\ pc = "load"
    /\ \/ LoadRuleDoc
       \/ LoadSparseDoc
       \/ LoadRequiredDoc
       \/ LoadTimeDoc
       \/ LoadTestDoc
       \/ LoadEdgeDoc
       \/ LoadShapeDoc
       \/ /\ pc' = "crashed"
          /\ exit_status' = 1
          /\ UNCHANGED <<schema, metric>>
    /\ errors' = <<>>
    /\ UNCHANGED <<tests, math_failures, out>>

\* One rule section: the errors it leaves, and the next section or the crash.
Section(here, next, result) ==
    /\ pc = here
    /\ errors' = result.errors
    /\ pc' = IF result.raised THEN "crashed" ELSE next
    /\ exit_status' = IF result.raised THEN 1 ELSE exit_status

RequiredFields ==
    /\ Section("required", "tier", RequiredFieldsRule(schema, metric, errors))
    /\ UNCHANGED <<schema, metric, tests, math_failures, out>>

TierValidation ==
    /\ Section("tier", "time", TierRule(schema, metric, errors))
    /\ UNCHANGED <<schema, metric, tests, math_failures, out>>

TimeSemantics ==
    /\ Section("time", "tests", TimeSemanticsRule(schema, metric, errors))
    /\ UNCHANGED <<schema, metric, tests, math_failures, out>>

TestRulesSection ==
    /\ Section("tests", "edges", TestRule(schema, metric, errors))
    /\ tests' = Get(metric, "tests", EmptyList)
    /\ UNCHANGED <<schema, metric, math_failures, out>>

EdgeCases ==
    /\ Section("edges", "audit", EdgeCaseRule(schema, metric, errors))
    /\ UNCHANGED <<schema, metric, tests, math_failures, out>>

AuditSection ==
    /\ Section("audit", "math", AuditRule(schema, metric, errors))
    /\ UNCHANGED <<schema, metric, tests, math_failures, out>>

MathValidation ==
    /\ pc = "math"
    /\ LET result == MathRule(metric, tests, <<>>)
       IN  /\ math_failures' = result.errors
           /\ pc' = IF result.raised THEN "crashed" ELSE "report"
           /\ exit_status' = IF result.raised THEN 1 ELSE exit_status
    /\ UNCHANGED <<schema, metric, errors, tests, out>>

\* lines 186-202
Report ==
    /\ pc = "report"
    /\ out' = out \o ReportLines(errors, math_failures)
    /\ pc' = "listing"
    /\ UNCHANGED <<schema, metric, errors, tests, math_failures, exit_status>>

\* lines 204-210
VariableListing ==
    /\ pc = "listing"
    /\ LET result == Listing(metric, out)
       IN  /\ out' = result.errors
           /\ pc' = IF result.raised THEN "crashed" ELSE "exit"
           /\ exit_status' = IF result.raised THEN 1 ELSE exit_status
    /\ UNCHANGED <<schema, metric, errors, tests, math_failures>>

\* lines 212-215
Exit ==
    /\ pc = "exit"
    /\ exit_status' = ExitStatus(errors, math_failures)
    /\ out' = IF exit_status' = 0
              THEN Append(out, Line("Validation complete.", <<>>))
              ELSE out
    /\ pc' = "done"
    /\ UNCHANGED <<schema, metric, errors, tests, math_failures>>

Next ==
    \/ CheckArgs
    \/ LoadFiles
    \/ RequiredFields
    \/ TierValidation
    \/ TimeSemantics
    \/ TestRulesSection
    \/ EdgeCases
    \/ AuditSection
    \/ MathValidation
    \/ Report
    \/ VariableListing
    \/ Exit

Spec == Init /\ [][Next]_vars

(***************************************************************************)
(* Vocabulary of the properties.                                           *)
(***************************************************************************)
Loaded == IsDict(schema) /\ IsDict(metric)

Ended == pc \in {"done", "crashed"}

HasLine(text) == \E i \in 1..Len(out) : out[i].text = text

LineAt(texts) == CHOOSE i \in 1..Len(out) : out[i].text \in texts

ValidationVerdicts == {"VALIDATION: PASS", "VALIDATION: FAIL"}

MathVerdicts == {"MATH TESTS: PASS", "MATH TESTS: FAIL"}

HasReport ==
    /\ \E i \in 1..Len(out) : out[i].text \in ValidationVerdicts
    /\ \E i \in 1..Len(out) : out[i].text \in MathVerdicts

\* The messages printed under the VALIDATION verdict.
ReportedErrors ==
    LET first == LineAt(ValidationVerdicts)
        last == LineAt(MathVerdicts)
    IN  [k \in 1..(last - first - 1) |-> out[first + k].args[1]]

\* What each rule group emits on its own, from an empty error list.
OwnRequired == RequiredFieldsRule(schema, metric, <<>>)
OwnTier == TierRule(schema, metric, <<>>)
OwnTime == TimeSemanticsRule(schema, metric, <<>>)
OwnTests == TestRule(schema, metric, <<>>)
OwnEdges == EdgeCaseRule(schema, metric, <<>>)
OwnAudit == AuditRule(schema, metric, <<>>)

AllOwnErrors ==
    OwnRequired.errors \o OwnTier.errors \o OwnTime.errors \o OwnTests.errors
        \o OwnEdges.errors \o OwnAudit.errors

NoGroupRaises ==
    ~(OwnRequired.raised \/ OwnTier.raised \/ OwnTime.raised \/ OwnTests.raised
        \/ OwnEdges.raised \/ OwnAudit.raised)

OfRule(errs, rule) == SelectSeq(errs, LAMBDA e : e.rule = rule)

OfText(errs, text) == SelectSeq(errs, LAMBDA e : e.text = text)

(***************************************************************************)
(* C1.  Accumulate-then-report: for every (schema, metric) pair the run    *)
(* evaluates all six rule groups in the fixed order and the reported error *)
(* sequence is the concatenation of what each group emits on its own; the  *)
(* pass never stops early.  A run that loaded its documents and has ended  *)
(* has therefore printed the report, with exactly that sequence under the  *)
(* VALIDATION verdict.                                                     *)
(***************************************************************************)
C1_AccumulateThenReport ==
    (Loaded /\ Ended) => (HasReport /\ ReportedErrors = AllOwnErrors)

\* What does hold: when no rule group raises, the errors in hand after each
\* section are the concatenation so far, and the report prints them all.
AccumulatesUnlessARuleRaises ==
    (Loaded /\ NoGroupRaises) =>
        /\ pc = "tier" => errors = OwnRequired.errors
        /\ pc = "time" => errors = OwnRequired.errors \o OwnTier.errors
        /\ pc = "tests" => errors = OwnRequired.errors \o OwnTier.errors \o OwnTime.errors
        /\ pc = "edges" => errors = OwnRequired.errors \o OwnTier.errors
                                        \o OwnTime.errors \o OwnTests.errors
        /\ pc \in {"math", "report", "listing", "exit", "done"} => errors = AllOwnErrors
        /\ HasReport => ReportedErrors = AllOwnErrors

(***************************************************************************)
(* C2.  For every run that reaches the report, the exit status is 0 if and *)
(* only if the error sequence and the mismatch sequence are both empty,    *)
(* VALIDATION is reported PASS exactly when the error sequence is empty,   *)
(* and MATH TESTS is reported PASS exactly when the mismatch sequence is.  *)
(***************************************************************************)
C2_ExitStatusIffClean ==
    (HasReport /\ exit_status # -1) =>
        /\ exit_status = 0 <=> (errors = <<>> /\ math_failures = <<>>)
        /\ exit_status \in {0, 1}
        /\ HasLine("VALIDATION: PASS") <=> errors = <<>>
        /\ HasLine("MATH TESTS: PASS") <=> math_failures = <<>>

\* What does hold: the status set by lines 212-215, when the listing completes.
ExitStatusIffCleanAtExit ==
    pc = "done" =>
        /\ exit_status = 0 <=> (errors = <<>> /\ math_failures = <<>>)
        /\ exit_status \in {0, 1}
        /\ HasLine("VALIDATION: PASS") <=> errors = <<>>
        /\ HasLine("MATH TESTS: PASS") <=> math_failures = <<>>

(***************************************************************************)
(* C9.  Every run that passes the startup checks reaches the report,       *)
(* whatever the metric document holds: once it has ended it has stated     *)
(* PASS or FAIL for the rule checker and for the numeric verifier and has  *)
(* printed the listing of every variable.                                  *)
(***************************************************************************)
ListingPrinted ==
    /\ HasLine("IMPLEMENTATION ASSUMPTIONS TO CONFIRM (Phase 2):")
    /\ LET variables == Get(metric, "variables", EmptyDict)
       IN  /\ IsDict(variables)
           /\ Len(OfText(out, "variable")) = Len(variables.items)

C9_AlwaysReports == (Loaded /\ Ended) => (HasReport /\ ListingPrinted)

(***************************************************************************)
(* C10.  Tests rule: when tests is not a sequence or is shorter than the   *)
(* minimum, exactly one count-mismatch error and no per-test error;        *)
(* otherwise one error per test without an expected_output key, naming the *)
(* test or "<unnamed>", and none for a key that is present and null.       *)
(***************************************************************************)
RanTests ==
    /\ Loaded
    /\ pc \in {"edges", "audit", "math", "report", "listing", "exit", "done", "crashed"}
    /\ pc = "crashed" => ~(OwnTier.raised \/ OwnTime.raised)

MissingExpectedOutput(declared) ==
    LET lacking == SelectSeq(declared, LAMBDA t : ~Has(t, "expected_output"))
    IN  [i \in 1..Len(lacking) |->
            Msg("tests", "Test missing expected_output",
                <<IF Has(lacking[i], "name") THEN Lookup(lacking[i], "name") ELSE Unnamed>>)]

C10_TestsRule ==
    RanTests =>
        LET declared == IF Has(metric, "tests") THEN Lookup(metric, "tests") ELSE EmptyList
            emitted == OfRule(errors, "tests")
        IN  IF ~IsList(declared) \/ Len(declared.l) < MinTests(schema).n
            THEN Len(emitted) = 1 /\ emitted[1].text = "Insufficient tests"
            ELSE (\A i \in 1..Len(declared.l) : IsDict(declared.l[i]))
                    => emitted = MissingExpectedOutput(declared.l)

(***************************************************************************)
(* Documents of the shape the data model gives them, any structure absent. *)
(***************************************************************************)
AbsentOr(d, k, P(_)) == ~Has(d, k) \/ P(Lookup(d, k))

IsStrList(v) == IsList(v) /\ \A i \in 1..Len(v.l) : IsStr(v.l[i])

NumberOrNull(v) == v.t \in {"num", "none"}

StrOrNull(v) == v.t \in {"str", "none"}

AllValues(v, P(_)) == IsDict(v) /\ \A i \in 1..Len(v.items) : P(v.items[i][2])

WellFormedInputs(v) == AllValues(v, NumberOrNull)

WellFormedTest(t) ==
    /\ IsDict(t)
    /\ AbsentOr(t, "name", IsStr)
    /\ AbsentOr(t, "inputs", WellFormedInputs)
    /\ AbsentOr(t, "expected_output", NumberOrNull)

WellFormedTests(v) == IsList(v) /\ \A i \in 1..Len(v.l) : WellFormedTest(v.l[i])

WellFormedTimeSem(v) ==
    /\ IsDict(v)
    /\ AbsentOr(v, "type", IsStr)
    /\ AbsentOr(v, "required_dates", IsStrList)

WellFormedEdgeCase(e) == IsStr(e) \/ AllValues(e, IsStr)

WellFormedEdgeCases(v) == IsList(v) /\ \A i \in 1..Len(v.l) : WellFormedEdgeCase(v.l[i])

WellFormedAudit(v) == AllValues(v, StrOrNull)

WellFormedVariables(v) == AllValues(v, IsDict)

WellFormedMetric ==
    /\ IsDict(metric)
    /\ AbsentOr(metric, "tier", IsStr)
    /\ AbsentOr(metric, "time_semantics", WellFormedTimeSem)
    /\ AbsentOr(metric, "tests", WellFormedTests)
    /\ AbsentOr(metric, "edge_cases", WellFormedEdgeCases)
    /\ AbsentOr(metric, "audit", WellFormedAudit)
    /\ AbsentOr(metric, "math_operations", IsStrList)
    /\ AbsentOr(metric, "metric_id", IsStr)
    /\ AbsentOr(metric, "variables", WellFormedVariables)

(***************************************************************************)
(* C7.  One "Missing or empty required field" error for each entry of the  *)
(* schema's required_fields that the metric lacks or holds as null, "",    *)
(* [] or {}; none for any other value, 0 and false included; and the       *)
(* errors of the other rules are what they are without them.               *)
(***************************************************************************)
Declared(d, k, default) == IF Has(d, k) THEN Lookup(d, k) ELSE default

Lacks(m, f) ==
    ~Has(m, f) \/ Lookup(m, f) \in {PyNone, PyStr(""), EmptyList, EmptyDict}

Occurrences(f, fields) == Cardinality({i \in 1..Len(fields) : fields[i] = PyStr(f)})

\* Just after the section, and at either end of the run.
RequiredDone == pc \in {"tier", "done", "crashed"} /\ Loaded

ReportReady == pc = "done"

C7_RequiredFields ==
    RequiredDone =>
        LET fields == Declared(schema, "required_fields", EmptyList).l
            emitted == OfRule(errors, "required")
        IN  /\ \A f \in RequiredNames :
                 Len(SelectSeq(emitted, LAMBDA e : e.args = <<PyStr(f)>>))
                    = IF Lacks(metric, f) THEN Occurrences(f, fields) ELSE 0
            /\ \A i \in 1..Len(emitted) :
                 /\ emitted[i].text = "Missing or empty required field"
                 /\ emitted[i].args[1].s \in RequiredNames
            /\ ReportReady =>
                 SelectSeq(errors, LAMBDA e : e.rule # "required")
                    = OwnTier.errors \o OwnTime.errors \o OwnTests.errors
                        \o OwnEdges.errors \o OwnAudit.errors

C7_Witness ==
    /\ pc = "done"
    /\ Declared(schema, "required_fields", EmptyList) = Strs(<<"owner", "name">>)
    /\ ~Has(metric, "owner")
    /\ Declared(metric, "name", PyNone) = PyStr("")
    /\ Len(OfRule(errors, "required")) = 2
    /\ Len(OfRule(errors, "tier")) = 1

(***************************************************************************)
(* C8.  With any subset of the metric's structures and of the schema's     *)
(* keys absent, the pass completes without a crash, and its errors are     *)
(* those of the same documents with the defaults written out: tests and    *)
(* edge_cases empty sequences, time_semantics and audit empty mappings,    *)
(* minimum test count 2, minimum edge-case count 1.                        *)
(***************************************************************************)
Put(d, k, v) ==
    IF Has(d, k)
    THEN PyDict([i \in 1..Len(d.items) |->
                    IF d.items[i][1] = k THEN <<k, v>> ELSE d.items[i]])
    ELSE PyDict(Append(d.items, <<k, v>>))

SetDefault(d, k, v) == IF Has(d, k) THEN d ELSE Put(d, k, v)

FilledMetric ==
    SetDefault(SetDefault(SetDefault(SetDefault(metric,
        "tests", EmptyList), "edge_cases", EmptyList),
        "time_semantics", EmptyDict), "audit", EmptyDict)

FilledSchema ==
    LET test_rules == SetDefault(Declared(schema, "test_rules", EmptyDict),
                                 "minimum_test_cases", PyInt(2))
        edge_rules == SetDefault(Declared(schema, "edge_case_rules", EmptyDict),
                                 "minimum_count", PyInt(1))
    IN  Put(Put(schema, "test_rules", test_rules), "edge_case_rules", edge_rules)

RuleErrors(s, m) ==
    RequiredFieldsRule(s, m, <<>>).errors \o TierRule(s, m, <<>>).errors
        \o TimeSemanticsRule(s, m, <<>>).errors \o TestRule(s, m, <<>>).errors
        \o EdgeCaseRule(s, m, <<>>).errors \o AuditRule(s, m, <<>>).errors

C8_AbsentIsDefault ==
    (Ended /\ Loaded /\ WellFormedMetric) =>
        /\ pc # "crashed"
        /\ errors = RuleErrors(FilledSchema, FilledMetric)
        /\ HasReport /\ ListingPrinted /\ exit_status \in {0, 1}

C8_Witness ==
    /\ pc = "done"
    /\ schema = Mapping(<<>>)
    /\ \A k \in MetricStructures : ~Has(metric, k)
    /\ \E i \in 1..Len(errors) :
         errors[i] = Msg("tests", "Insufficient tests", <<PyInt(0), PyInt(2)>>)
    /\ Len(OfText(errors, "Insufficient edge_cases")) = 1
    /\ Len(OfRule(errors, "audit")) = 3

(***************************************************************************)
(* The numeric verifier as the text states it, in integer arithmetic: a    *)
(* number is n/d with d > 0, and a/b > c/e is decided by cross products.   *)
(***************************************************************************)
MathDone ==
    /\ pc \in {"report", "done"}
    /\ Loaded
    /\ Declared(metric, "metric_id", PyNone) = TurnoverId
    /\ WellFormedTests(Declared(metric, "tests", EmptyList))

InputOf(t, k) == Declared(Declared(t, "inputs", EmptyDict), k, PyNone)

ExpectedOf(t) == Declared(t, "expected_output", PyNone)

NameOf(t) == Declared(t, "name", Unnamed)

\* InventoryBegin + InventoryEnd, as a numerator over a positive denominator
SumNum(t) ==
    InputOf(t, "InventoryBegin").n * InputOf(t, "InventoryEnd").d
        + InputOf(t, "InventoryEnd").n * InputOf(t, "InventoryBegin").d

SumDen(t) == InputOf(t, "InventoryBegin").d * InputOf(t, "InventoryEnd").d

Undefined(t) ==
    \/ \E k \in {"COGS", "InventoryBegin", "InventoryEnd"} : InputOf(t, k) = PyNone
    \/ SumNum(t) = 0

\* COGS / ((InventoryBegin + InventoryEnd) / 2), when defined
ActualNum(t) == 2 * InputOf(t, "COGS").n * SumDen(t)

ActualDen(t) == InputOf(t, "COGS").d * SumNum(t)

\* |actual - expected| > 0.01
BeyondTolerance(t) ==
    100 * Abs(ActualNum(t) * ExpectedOf(t).d - ExpectedOf(t).n * ActualDen(t))
        > Abs(ActualDen(t) * ExpectedOf(t).d)

FailsComparison(t) ==
    \/ ExpectedOf(t) = PyNone /\ ~Undefined(t)
    \/ ExpectedOf(t) # PyNone /\ (Undefined(t) \/ BeyondTolerance(t))

ActualIs(t, v) ==
    IF Undefined(t) THEN v = PyNone
    ELSE /\ v # PyNone
         /\ v.n * ActualDen(t) = ActualNum(t) * v.d
         /\ InputOf(t, "COGS").n = 0 => v = PyInt(0)

(***************************************************************************)
(* C6.  For INVENTORY_TURNOVER the mismatch sequence holds, in test order, *)
(* one mismatch for each test that fails the comparison and nothing else:  *)
(* actual is undefined when an input is absent or null or the average      *)
(* inventory is zero, exactly 0 when COGS is zero over a nonzero average,  *)
(* COGS / average otherwise; a test fails when expected is null and actual *)
(* is defined, or expected is a number and actual is undefined or further  *)
(* than 0.01 from it.                                                      *)
(***************************************************************************)
C6_NumericVerifier ==
    MathDone =>
        LET failing == SelectSeq(Declared(metric, "tests", EmptyList).l, FailsComparison)
        IN  /\ Len(math_failures) = Len(failing)
            /\ \A i \in 1..Len(failing) :
                 /\ math_failures[i].args[1] = NameOf(failing[i])
                 /\ math_failures[i].args[2] = ExpectedOf(failing[i])
                 /\ ActualIs(failing[i], math_failures[i].args[3])

C6_Witness ==
    /\ pc = "done"
    /\ MathDone
    /\ Declared(metric, "tests", EmptyList) = PyList(<<TestAllZero, TestNoInventory>>)
    /\ Len(math_failures) = 1
    /\ math_failures[1].args = <<PyStr("all_zero"), PyInt(0), PyNone>>

(***************************************************************************)
(* C5.  INVENTORY_TURNOVER with COGS=100, InventoryBegin=40,               *)
(* InventoryEnd=60: actual is 2.0; expected 2.0 gives no mismatch and      *)
(* expected 2.5 gives one.  As first stated, expected 2.02 gives no        *)
(* mismatch; as the tolerance of 0.01 decides it, expected 2.02 gives one. *)
(***************************************************************************)
MismatchesFor(t) == Len(SelectSeq(math_failures, LAMBDA f : f.args[1] = NameOf(t)))

TimesDeclared(t) ==
    LET declared == Declared(metric, "tests", EmptyList).l
    IN  Cardinality({i \in 1..Len(declared) : declared[i] = t})

ActualIsTwo ==
    /\ ~compute_inventory_turnover(TurnoverInputs).raised
    /\ compute_inventory_turnover(TurnoverInputs).value # PyNone
    /\ RatEq(compute_inventory_turnover(TurnoverInputs).value, PyInt(2))

C5_RoundTripAsStated ==
    MathDone =>
        /\ ActualIsTwo
        /\ MismatchesFor(TestExact) = 0
        /\ MismatchesFor(TestNear) = 0
        /\ MismatchesFor(TestFar) = TimesDeclared(TestFar)

C5_RoundTrip ==
    MathDone =>
        /\ ActualIsTwo
        /\ MismatchesFor(TestExact) = 0
        /\ MismatchesFor(TestNear) = TimesDeclared(TestNear)
        /\ MismatchesFor(TestFar) = TimesDeclared(TestFar)
        /\ \A i \in 1..Len(math_failures) :
             math_failures[i].args[1] \in {PyStr("near"), PyStr("far")}
                => RatEq(math_failures[i].args[3], PyInt(2))

C5_Witness ==
    /\ pc = "done"
    /\ MathDone
    /\ Declared(metric, "tests", EmptyList) = PyList(<<TestExact, TestNear>>)
    /\ Len(math_failures) = 1
    /\ math_failures[1].args = <<PyStr("near"), PyNum(202, 100), PyInt(2)>>

(***************************************************************************)
(* C3.  For a time_semantics.type with an exact date list in the schema's  *)
(* required_dates_by_type: required_dates a permutation of it, no error;   *)
(* a strict subset, a strict superset or the set with one entry            *)
(* duplicated, exactly one error.  As first stated the count is of all     *)
(* time-semantics errors; it holds of the required_dates error, beside     *)
(* which the type's own error is emitted when the type is not allowed.     *)
(***************************************************************************)
TimeDone == pc \in {"tests", "done"} /\ Loaded

DeclaredTimeSem == Declared(metric, "time_semantics", EmptyDict)

DeclaredType == Declared(DeclaredTimeSem, "type", PyNone)

DeclaredDates == Declared(DeclaredTimeSem, "required_dates", EmptyList)

DeclaredTimeRules == Declared(schema, "time_semantics_rules", EmptyDict)

ExactList ==
    LET by_type == Declared(DeclaredTimeRules, "required_dates_by_type", EmptyDict)
    IN  IF IsStr(DeclaredType) /\ Has(by_type, DeclaredType.s)
        THEN Lookup(by_type, DeclaredType.s).l
        ELSE <<>>

TypeAllowed ==
    \E i \in 1..Len(Declared(DeclaredTimeRules, "allowed_types", EmptyList).l) :
        Declared(DeclaredTimeRules, "allowed_types", EmptyList).l[i] = DeclaredType

ExactCase ==
    /\ TimeDone
    /\ IsDict(DeclaredTimeSem)
    /\ ExactList # <<>>
    /\ Has(DeclaredTimeSem, "required_dates")
    /\ IsStrList(DeclaredDates)

Range(q) == {q[i] : i \in 1..Len(q)}

Count(x, q) == Cardinality({i \in 1..Len(q) : q[i] = x})

IsPermutation(a, b) ==
    Len(a) = Len(b) /\ \A x \in Range(a) \cup Range(b) : Count(x, a) = Count(x, b)

StrictSubset(a, b) == Range(a) \subseteq Range(b) /\ Range(a) # Range(b)

OneDuplicated(a, b) ==
    \E x \in Range(b) :
        \A y \in Range(a) \cup Range(b) :
            Count(y, a) = Count(y, b) + (IF y = x THEN 1 ELSE 0)

Mismatched(a, b) == StrictSubset(a, b) \/ StrictSubset(b, a) \/ OneDuplicated(a, b)

C3_ExactDatesAsStated ==
    ExactCase =>
        /\ IsPermutation(DeclaredDates.l, ExactList) => Len(OfRule(errors, "time")) = 0
        /\ Mismatched(DeclaredDates.l, ExactList) => Len(OfRule(errors, "time")) = 1

C3_ExactDates ==
    ExactCase =>
        LET date_errors == OfText(errors, "required_dates must match")
            type_errors == OfText(errors, "Invalid time_semantics.type")
        IN  /\ IsPermutation(DeclaredDates.l, ExactList) => Len(date_errors) = 0
            /\ Mismatched(DeclaredDates.l, ExactList) =>
                 /\ Len(date_errors) = 1
                 /\ IsPermutation(date_errors[1].args[1].l, ExactList)
            /\ Len(type_errors) = IF TypeAllowed THEN 0 ELSE 1
            /\ Len(OfRule(errors, "time")) = Len(date_errors) + Len(type_errors)

C3_Witness ==
    /\ ExactCase
    /\ pc = "done"
    /\ DeclaredType = PyStr("point")
    /\ ~TypeAllowed
    /\ ExactList = Strs(<<"as_of">>).l
    /\ DeclaredDates = Strs(<<"as_of", "as_of">>)
    /\ Len(OfRule(errors, "time")) = 2
    /\ Len(OfText(errors, "required_dates must match")) = 1

(***************************************************************************)
(* C4.  With require_division_by_zero_handling the conditional marker: a   *)
(* metric whose math_operations holds "division" in any letter case, once  *)
(* trimmed, and whose edge_cases entries mention neither "zero" nor        *)
(* "division" gets exactly one edge-case error; with math_operations empty *)
(* it gets no division-by-zero-handling error.  As first stated the count  *)
(* is of all edge-case errors; it holds of the division-by-zero-handling   *)
(* error, beside which "Insufficient edge_cases" is emitted when the       *)
(* entries are fewer than the minimum count.                               *)
(***************************************************************************)
EdgesDone == pc \in {"audit", "done"} /\ Loaded

DeclaredEdgeRules == Declared(schema, "edge_case_rules", EmptyDict)

MarkerSet ==
    Declared(DeclaredEdgeRules, "require_division_by_zero_handling", PyBool(FALSE))
        = ConditionalMarker

DeclaredOperations == Declared(metric, "math_operations", EmptyList)

DeclaredEdgeCases == Declared(metric, "edge_cases", EmptyList)

DivisionSpellings == {PyStr("division"), PyStr("Division"), PyStr(" DIVISION ")}

HasDivision ==
    /\ IsList(DeclaredOperations)
    /\ \E i \in 1..Len(DeclaredOperations.l) : DeclaredOperations.l[i] \in DivisionSpellings

\* The entries of the documents that mention "zero" or "division".
MentioningEntries ==
    {PyStr("Zero stock"), PyStr("DIVISION guard"), PyStr("zero"),
     PyDict(<< <<"case", PyStr("zero")>> >>)}

SilentEdgeCases ==
    /\ Has(metric, "edge_cases")
    /\ WellFormedEdgeCases(DeclaredEdgeCases)
    /\ \A i \in 1..Len(DeclaredEdgeCases.l) : DeclaredEdgeCases.l[i] \notin MentioningEntries

DivisionErrors ==
    OfText(errors, "edge_cases must explicitly mention division-by-zero handling")

C4_DivisionHandlingAsStated ==
    (EdgesDone /\ MarkerSet) =>
        /\ (HasDivision /\ SilentEdgeCases) => Len(OfRule(errors, "edge")) = 1
        /\ DeclaredOperations = EmptyList => Len(DivisionErrors) = 0

C4_DivisionHandling ==
    (EdgesDone /\ MarkerSet) =>
        /\ (HasDivision /\ SilentEdgeCases) =>
             /\ Len(DivisionErrors) = 1
             /\ Len(OfRule(errors, "edge"))
                  = 1 + (IF Len(DeclaredEdgeCases.l) < MinEdges(schema).n THEN 1 ELSE 0)
        /\ DeclaredOperations = EmptyList => Len(DivisionErrors) = 0

C4_Witness ==
    /\ pc = "done"
    /\ MarkerSet
    /\ DeclaredOperations = Strs(<<"sum", " DIVISION ">>)
    /\ DeclaredEdgeCases = Strs(<<"ze", "ro">>)
    /\ Has(DeclaredEdgeRules, "minimum_count")
    /\ Len(DivisionErrors) = 1
    /\ Len(OfRule(errors, "edge")) = 1
====
